---- MODULE Spec2Model ----
(***************************************************************************)
(* A model of streamlit_app.py: the regex-based extractor                  *)
(* extract_fields_dummy, the OpenAI adapter extract_fields_via_openai, the *)
(* collection of the transcripts and the "Extract Fields" handler.         *)
(*                                                                         *)
(* Text is a sequence of one-character strings, so that the regular        *)
(* expressions, str.strip, str.lower and the substring tests are computed  *)
(* character by character as Python computes them.  "RSQUO" stands for the *)
(* one character U+2019.  A confidence score is kept in hundredths         *)
(* (0.50 is 50).                                                           *)
(***************************************************************************)
EXTENDS Integers, Sequences, FiniteSets, TLC

\* ------------------------------------------------------------- characters

UpperCase == <<"A","B","C","D","E","F","G","H","I","J","K","L","M","N","O","P","Q","R","S","T","U","V","W","X","Y","Z">>

LowerCase == <<"a","b","c","d","e","f","g","h","i","j","k","l","m","n","o","p","q","r","s","t","u","v","w","x","y","z">>

Digits == {"0", "1", "2", "3", "4", "5", "6", "7", "8", "9"}

Letters == {UpperCase[k] : k \in 1..26} \cup {LowerCase[k] : k \in 1..26}

LowerMap == [c \in {UpperCase[k] : k \in 1..26} |-> LowerCase[CHOOSE k \in 1..26 : UpperCase[k] = c]]

lower_char(c) == IF c \in DOMAIN LowerMap THEN LowerMap[c] ELSE c

\* str.lower()
lower(s) == [k \in 1..Len(s) |-> lower_char(s[k])]

\* \s of the re module
Space == {" ", "\n", "\t"}

\* [A-Za-z ]
NameChars == Letters \cup {" "}

\* [\d,]
AmountChars == Digits \cup {","}

\* [\d.]
RateChars == Digits \cup {"."}

\* [\d-]
SsnChars == Digits \cup {"-"}

\* [\d/]
DobChars == Digits \cup {"/"}

Min(S) == CHOOSE x \in S : \A y \in S : x <= y

Max(S) == CHOOSE x \in S : \A y \in S : x >= y

\* The end of the longest run of characters of the class that starts at i:
\* the first position from i on that is past the text or not in the class.
RunEnd(s, i, class) ==
  LET stop == {q \in i..Len(s) : s[q] \notin class}
  IN  IF stop = {} THEN Len(s) + 1 ELSE Min(stop)

\* The end of the line from i on: "." of a pattern matches all but a newline.
LineEnd(s, i) ==
  LET stop == {q \in i..Len(s) : s[q] = "\n"}
  IN  IF stop = {} THEN Len(s) + 1 ELSE Min(stop)

\* A literal of the pattern at position i under re.IGNORECASE (lit is lower case).
LitAt(s, i, lit) ==
  /\ i >= 1
  /\ i + Len(lit) - 1 <= Len(s)
  /\ \A k \in 1..Len(lit) : lower_char(s[i + k - 1]) = lit[k]

\* str.strip()
strip(s) ==
  LET keep == {k \in 1..Len(s) : s[k] \notin Space}
  IN  IF keep = {} THEN <<>> ELSE SubSeq(s, Min(keep), Max(keep))

\* str.rstrip('.')
rstrip_dot(s) ==
  LET keep == {k \in 1..Len(s) : s[k] # "."}
  IN  IF keep = {} THEN <<>> ELSE SubSeq(s, 1, Max(keep))

\* str.split(",")[0]
split_comma_first(s) ==
  LET commas == {k \in 1..Len(s) : s[k] = ","}
  IN  IF commas = {} THEN s ELSE SubSeq(s, 1, Min(commas) - 1)

\* code in text, for two str
contains(text, code) ==
  \E i \in 1..(Len(text) - Len(code) + 1) : SubSeq(text, i, i + Len(code) - 1) = code

\* -------------------------------------------------------- re.search results

\* A match object: where it starts and its group(1); None is ok = FALSE.
NoMatch == [ok |-> FALSE, start |-> 0, group1 |-> <<>>]

Match(i, g) == [ok |-> TRUE, start |-> i, group1 |-> g]

\* re.search: the match at the leftmost position where the pattern matches,
\* at[i] being the pattern's match at position i.
Search(at) ==
  LET hits == {i \in DOMAIN at : at[i].ok}
  IN  IF hits = {} THEN NoMatch ELSE at[Min(hits)]

\* <literal>\s*\$?([\d,]+) matched at i.
AmountAfterAt(s, i, lit) ==
  LET k == RunEnd(s, i + Len(lit), Space)
      d == IF k <= Len(s) /\ s[k] = "$" THEN k + 1 ELSE k
      e == RunEnd(s, d, AmountChars)
  IN  IF LitAt(s, i, lit) /\ e > d THEN Match(i, SubSeq(s, d, e - 1)) ELSE NoMatch

\* <literal>.*?\$?([\d,]+) matched at i: the lazy .*? stops at the first
\* position of the line where an amount, or a $ directly before one, starts.
AmountLaterAt(s, i, lit) ==
  LET j == i + Len(lit)
      eol == LineEnd(s, j)
      ok(q) == \/ s[q] \in AmountChars
               \/ s[q] = "$" /\ q + 1 <= Len(s) /\ s[q + 1] \in AmountChars
      qs == {q \in j..(eol - 1) : ok(q)}
      q0 == Min(qs)
      d == IF s[q0] = "$" THEN q0 + 1 ELSE q0
  IN  IF LitAt(s, i, lit) /\ qs # {}
      THEN Match(i, SubSeq(s, d, RunEnd(s, d, AmountChars) - 1))
      ELSE NoMatch

\* The tail \s+([A-Za-z ]+) from position j on: the greedy \s+ gives back
\* blanks until a name character follows it.
NameTail(s, i, j) ==
  LET k == RunEnd(s, j, Space)
      ps == {p \in (j + 1)..k : p <= Len(s) /\ s[p] \in NameChars}
      p0 == Max(ps)
  IN  IF ps # {} THEN Match(i, SubSeq(s, p0, RunEnd(s, p0, NameChars) - 1)) ELSE NoMatch

\* Borrower\s*:\s*(.+) matched at i.
BorrowerAt(s, i) ==
  LET k == RunEnd(s, i + 8, Space)
      j == k + 1
      k2 == RunEnd(s, j, Space)
      ps == {p \in j..k2 : p <= Len(s) /\ s[p] # "\n"}
      p0 == Max(ps)
  IN  IF LitAt(s, i, <<"b","o","r","r","o","w","e","r">>) /\ k <= Len(s) /\ s[k] = ":" /\ ps # {}
      THEN Match(i, SubSeq(s, p0, LineEnd(s, p0) - 1))
      ELSE NoMatch

\* my name is\s+([A-Za-z ]+) matched at i.
MyNameIsAt(s, i) ==
  IF LitAt(s, i, <<"m","y"," ","n","a","m","e"," ","i","s">>) THEN NameTail(s, i, i + 10) ELSE NoMatch

\* name'?s\s+([A-Za-z ]+) matched at i.
NamesAt(s, i) ==
  LET j == i + 4
      q == IF j <= Len(s) /\ s[j] = "'" THEN j + 1 ELSE j
  IN  IF LitAt(s, i, <<"n","a","m","e">>) /\ LitAt(s, q, <<"s">>) THEN NameTail(s, i, q + 1) ELSE NoMatch

\* (?:home at|it['RSQUO]?s)\s*(.+?)\. matched at i: the greedy \s* gives back
\* blanks until the lazy (.+?) finds a period later on its line.
AddressAt(s, i) ==
  LET q == IF i + 2 <= Len(s) /\ s[i + 2] \in {"'", "RSQUO"} THEN i + 3 ELSE i + 2
      j == IF LitAt(s, i, <<"h","o","m","e"," ","a","t">>) THEN i + 7
           ELSE IF LitAt(s, i, <<"i","t">>) /\ LitAt(s, q, <<"s">>) THEN q + 1
           ELSE 0
      k == RunEnd(s, j, Space)
      dots(p) == {d \in (p + 1)..(LineEnd(s, p) - 1) : s[d] = "."}
      ps == {p \in j..k : p <= Len(s) /\ s[p] # "\n" /\ dots(p) # {}}
      p0 == Max(ps)
  IN  IF j > 0 /\ ps # {} THEN Match(i, SubSeq(s, p0, Min(dots(p0)) - 1)) ELSE NoMatch

\* (\d+)-year fixed rate matched at i.
LoanTermAt(s, i) ==
  LET e == RunEnd(s, i, Digits)
  IN  IF e > i /\ LitAt(s, e, <<"-","y","e","a","r"," ","f","i","x","e","d"," ","r","a","t","e">>) THEN Match(i, SubSeq(s, i, e - 1)) ELSE NoMatch

\* rate is\s*([\d.]+%) matched at i.
RateAt(s, i) ==
  LET k == RunEnd(s, i + 7, Space)
      e == RunEnd(s, k, RateChars)
  IN  IF LitAt(s, i, <<"r","a","t","e"," ","i","s">>) /\ e > k /\ e <= Len(s) /\ s[e] = "%"
      THEN Match(i, SubSeq(s, k, e))
      ELSE NoMatch

\* <literal>\s*(?:is)?\s*(<class>+) matched at i.
IsValueAt(s, i, lit, class) ==
  LET k == RunEnd(s, i + Len(lit), Space)
      k2 == IF LitAt(s, k, <<"i","s">>) THEN k + 2 ELSE k
      k3 == RunEnd(s, k2, Space)
      e == RunEnd(s, k3, class)
  IN  IF LitAt(s, i, lit) /\ e > k3 THEN Match(i, SubSeq(s, k3, e - 1)) ELSE NoMatch

\* ----------------------------------------------------- extract_fields_dummy

Field(name, value, confidence) ==
  [field_name |-> name, field_value |-> value, confidence_score |-> confidence]

\* 1) Borrower Name: the name, <<>> when there is none (None or '').
BorrowerName(transcript) ==
  LET m == Search([i \in 1..Len(transcript) |-> BorrowerAt(transcript, i)])
      raw == rstrip_dot(strip(m.group1))
      r1 == Search([i \in 1..Len(raw) |-> MyNameIsAt(raw, i)])
      r2 == IF r1.ok THEN r1 ELSE Search([i \in 1..Len(raw) |-> NamesAt(raw, i)])
      f == Search([i \in 1..Len(transcript) |-> MyNameIsAt(transcript, i)])
  IN  IF m.ok
      THEN IF r2.ok THEN strip(r2.group1) ELSE strip(split_comma_first(raw))
      ELSE IF f.ok THEN strip(f.group1) ELSE <<>>

\* 2) Property Address
PropertyAddressMatch(transcript) == Search([i \in 1..Len(transcript) |-> AddressAt(transcript, i)])

LoanForMatch(transcript) ==
  Search([i \in 1..Len(transcript) |-> AmountAfterAt(transcript, i, <<"l","o","a","n"," ","f","o","r">>)])

PurchasePriceMatch(transcript) ==
  Search([i \in 1..Len(transcript) |-> AmountAfterAt(transcript, i, <<"p","u","r","c","h","a","s","e"," ","p","r","i","c","e"," ","i","s">>)])

OutstandingBalanceMatch(transcript) ==
  Search([i \in 1..Len(transcript) |-> AmountLaterAt(transcript, i, <<"o","u","t","s","t","a","n","d","i","n","g"," ","b","a","l","a","n","c","e">>)])

\* The match that starts first in the text, whichever alternative it is.
LoanAmountMatch_Leftmost(transcript) ==
  LET ms == {m \in {LoanForMatch(transcript), PurchasePriceMatch(transcript),
                    OutstandingBalanceMatch(transcript)} : m.ok}
  IN  IF ms = {} THEN NoMatch ELSE CHOOSE m \in ms : \A n \in ms : m.start <= n.start

\* 3) Loan Amount: a or b or c of three searches
LoanAmountMatch(transcript) ==
  IF LoanForMatch(transcript).ok THEN LoanForMatch(transcript)
  ELSE IF PurchasePriceMatch(transcript).ok THEN PurchasePriceMatch(transcript)
  ELSE OutstandingBalanceMatch(transcript)

\* 4) Loan Term
LoanTermMatch(transcript) == Search([i \in 1..Len(transcript) |-> LoanTermAt(transcript, i)])

\* 5) Interest Rate
InterestRateMatch(transcript) == Search([i \in 1..Len(transcript) |-> RateAt(transcript, i)])

\* 6) SSN
SsnMatch(transcript) ==
  Search([i \in 1..Len(transcript) |-> IsValueAt(transcript, i, <<"s","s","n">>, SsnChars)])

\* 7) Date of Birth
DobMatch(transcript) ==
  Search([i \in 1..Len(transcript) |-> IsValueAt(transcript, i, <<"d","o","b">>, DobChars)])

\* 8) Income: a or b of two searches
IncomeMatch(transcript) ==
  LET a == Search([i \in 1..Len(transcript) |-> AmountLaterAt(transcript, i, <<"a","n","n","u","a","l"," ","i","n","c","o","m","e">>)])
  IN  IF a.ok THEN a
      ELSE Search([i \in 1..Len(transcript) |-> AmountLaterAt(transcript, i, <<"g","r","o","s","s"," ","m","o","n","t","h","l","y"," ","i","n","c","o","m","e">>)])

\* What each rule appends to fields: one field, or nothing.
BorrowerNameFields(transcript) ==
  IF BorrowerName(transcript) # <<>>
  THEN <<Field("Borrower Name", BorrowerName(transcript), 50)>>
  ELSE <<>>

PropertyAddressFields(transcript) ==
  LET m == PropertyAddressMatch(transcript)
  IN  IF m.ok THEN <<Field("Property Address", strip(m.group1), 50)>> ELSE <<>>

\* One field for every alternative that matches.
LoanAmountFields_EveryAlternative(transcript) ==
  LET F(m) == IF m.ok THEN <<Field("Loan Amount", <<"$">> \o strip(m.group1), 50)>> ELSE <<>>
  IN  F(LoanForMatch(transcript)) \o F(PurchasePriceMatch(transcript))
        \o F(OutstandingBalanceMatch(transcript))

LoanAmountFields(transcript) ==
  LET m == LoanAmountMatch(transcript)
  IN  IF m.ok THEN <<Field("Loan Amount", <<"$">> \o strip(m.group1), 50)>> ELSE <<>>

LoanTermFields(transcript) ==
  LET m == LoanTermMatch(transcript)
  IN  IF m.ok THEN <<Field("Loan Term", m.group1 \o <<"-","y","e","a","r">>, 50)>> ELSE <<>>

InterestRateFields(transcript) ==
  LET m == InterestRateMatch(transcript)
  IN  IF m.ok THEN <<Field("Interest Rate", m.group1, 75)>> ELSE <<>>

SsnFields(transcript) ==
  LET m == SsnMatch(transcript)
  IN  IF m.ok THEN <<Field("SSN", m.group1, 90)>> ELSE <<>>

DobFields(transcript) ==
  LET m == DobMatch(transcript)
  IN  IF m.ok THEN <<Field("Date of Birth", m.group1, 95)>> ELSE <<>>

IncomeFields(transcript) ==
  LET m == IncomeMatch(transcript)
  IN  IF m.ok THEN <<Field("Income", <<"$">> \o strip(m.group1), 75)>> ELSE <<>>

\* The "fields" list of the dict extract_fields_dummy returns.
extract_fields_dummy(transcript) ==
  BorrowerNameFields(transcript) \o PropertyAddressFields(transcript)
    \o LoanAmountFields(transcript) \o LoanTermFields(transcript)
    \o InterestRateFields(transcript) \o SsnFields(transcript)
    \o DobFields(transcript) \o IncomeFields(transcript)

\* ------------------------------------------------------------ Python values

\* A Python value carries its type: the handler's tests (isinstance, in,
\* truthiness, .lower()) depend on it.
PyNone == [t |-> "NoneType"]

PyStr(s) == [t |-> "str", s |-> s]

PyInt(n) == [t |-> "int", n |-> n]

PyList(items) == [t |-> "list", items |-> items]

PyDict(d) == [t |-> "dict", d |-> d]

\* not v
falsy(v) ==
  CASE v.t = "NoneType" -> TRUE
    [] v.t = "str" -> v.s = <<>>
    [] v.t = "int" -> v.n = 0
    [] v.t = "list" -> v.items = <<>>
    [] v.t = "dict" -> DOMAIN v.d = {}

\* "error" in v: key membership for a dict, element membership for a list,
\* substring for a str, TypeError for what is not iterable.
in_error(v) ==
  CASE v.t = "dict" -> IF "error" \in DOMAIN v.d THEN "True" ELSE "False"
    [] v.t = "list" ->
         IF \E k \in 1..Len(v.items) : v.items[k].t = "str" /\ v.items[k].s = <<"e","r","r","o","r">>
         THEN "True" ELSE "False"
    [] v.t = "str" -> IF contains(v.s, <<"e","r","r","o","r">>) THEN "True" ELSE "False"
    [] OTHER -> "TypeError"

\* ------------------------------------------------- extract_fields_via_openai

\* str(e) of the json.JSONDecodeError of a reply that is no JSON document
JSONDecodeErrorMessage == <<"E","x","p","e","c","t","i","n","g"," ","v","a","l","u","e",":"," ","l","i","n","e"," ","1"," ","c","o","l","u","m","n"," ","1"," ","(","c","h","a","r"," ","0",")">>

\* str(e) of the TypeError json.loads raises for a message without content
JSONTypeErrorMessage == <<"t","h","e"," ","J","S","O","N"," ","o","b","j","e","c","t"," ","m","u","s","t"," ","b","e"," ","s","t","r",","," ","b","y","t","e","s"," ","o","r"," ","b","y","t","e","a","r","r","a","y",","," ","n","o","t"," ","N","o","n","e","T","y","p","e">>

\* message.content of a reply: None, a text that is no JSON document, or the
\* JSON text of a value.
ContentNone == [t |-> "NoneType"]

ContentGarbage == [t |-> "str", json |-> FALSE]

ContentJson(v) == [t |-> "str", json |-> TRUE, value |-> v]

\* json.loads(content): the value, or the message of the exception it raises
json_loads(content) ==
  IF content.t = "NoneType" THEN [raised |-> TRUE, message |-> JSONTypeErrorMessage]
  ELSE IF ~content.json THEN [raised |-> TRUE, message |-> JSONDecodeErrorMessage]
  ELSE [raised |-> FALSE, value |-> content.value]

\* What client.chat.completions.create does, from the caller's side: it raises
\* an exception with a message, or returns a reply with a content.
Raises(message) == [kind |-> "raise", message |-> message]

Replies(content) == [kind |-> "reply", content |-> content]

\* The try/except of extract_fields_via_openai: the parsed reply as it is, or
\* {"error": str(e)} for an exception of the call or of json.loads.
extract_fields_via_openai(transcript, outcome) ==
  IF outcome.kind = "raise" THEN PyDict([error |-> PyStr(outcome.message)])
  ELSE LET r == json_loads(outcome.content)
       IN  IF r.raised THEN PyDict([error |-> PyStr(r.message)]) ELSE r.value

\* ------------------------------------------------------ the page's widgets

DummyExtractor == "Dummy extractor"

AIExtractor == "AI extractor"

\* The options of the sidebar radio; the first one is selected at the start.
ExtractorOptions == <<DummyExtractor, AIExtractor>>

\* An entry of the page: what the script showed, for which transcript (idx 0:
\* for none), with the value it showed.
Shown(idx, kind, value) == [idx |-> idx, kind |-> kind, value |-> value]

\* st.file_uploader's value: None, or a file that pandas cannot read, or a
\* table with or without the column "transcript", whose cells are NaN or text.
NoFile == [t |-> "NoneType"]

UnreadableFile == [t |-> "file", readable |-> FALSE, has_column |-> FALSE, rows |-> <<>>]

CsvFile(has_column, rows) ==
  [t |-> "file", readable |-> TRUE, has_column |-> has_column, rows |-> rows]

NaN == [nan |-> TRUE, text |-> <<>>]

Cell(text) == [nan |-> FALSE, text |-> text]

\* df["transcript"].dropna().astype(str).tolist()
dropna_tolist(rows) ==
  LET F[k \in 0..Len(rows)] ==
        IF k = 0 THEN <<>>
        ELSE IF rows[k].nan THEN F[k - 1] ELSE Append(F[k - 1], rows[k].text)
  IN  F[Len(rows)]

\* The list transcripts of one run of the script: the column of the uploaded
\* CSV, or else the stripped text of the text area when that is not empty.
collect_transcripts(file, text) ==
  IF file.t = "file"
  THEN IF file.readable /\ file.has_column THEN dropna_tolist(file.rows) ELSE <<>>
  ELSE IF strip(text) # <<>> THEN <<strip(text)>> ELSE <<>>

\* What the collection shows: st.success for a loaded CSV, st.error otherwise.
collect_shown(file) ==
  IF file.t # "file" THEN <<>>
  ELSE IF ~file.readable THEN <<Shown(0, "csv_read_error", PyNone)>>
  ELSE IF file.has_column THEN <<Shown(0, "csv_loaded", PyInt(Len(file.rows)))>>
  ELSE <<Shown(0, "csv_no_column", PyNone)>>

\* ------------------------------------------------ the Extract Fields handler

\* The same test on the message as it is, without .lower().
is_quota_error_CaseSensitive(message) ==
  \E code \in {<<"q","u","o","t","a">>, <<"4","2","9">>, <<"r","a","t","e"," ","l","i","m","i","t">>} : contains(message, code)

\* any(code in message.lower() for code in ("quota", "429", "rate limit"))
is_quota_error(message) ==
  \E code \in {<<"q","u","o","t","a">>, <<"4","2","9">>, <<"r","a","t","e"," ","l","i","m","i","t">>} : contains(lower(message), code)

\* A call of an extractor: which one, on what, and what it returned.
Call(extractor, transcript, result) ==
  [extractor |-> extractor, transcript |-> transcript, result |-> result]

\* A handler that calls extract_fields_dummy itself when the AI extractor
\* returned an error.
run_extractor_Fallback(choice, tx, outcome) ==
  LET ai == extract_fields_via_openai(tx, outcome)
      dummy == PyDict([fields |-> PyList(extract_fields_dummy(tx))])
  IN  IF choice = AIExtractor
      THEN IF ai.t = "dict" /\ "error" \in DOMAIN ai.d
           THEN <<Call("extract_fields_via_openai", tx, ai), Call("extract_fields_dummy", tx, dummy)>>
           ELSE <<Call("extract_fields_via_openai", tx, ai)>>
      ELSE <<Call("extract_fields_dummy", tx, dummy)>>

\* The if/else on use_ai: the calls made for one transcript, the last one's
\* result being the variable result.
run_extractor(choice, tx, outcome) ==
  IF choice = AIExtractor
  THEN <<Call("extract_fields_via_openai", tx, extract_fields_via_openai(tx, outcome))>>
  ELSE <<Call("extract_fields_dummy", tx, PyDict([fields |-> PyList(extract_fields_dummy(tx))]))>>

\* The two tests made on the AI extractor's result inside the spinner: what
\* is shown before "continue", or the exception a test raises, or neither.
ai_checks(idx, result) ==
  IF result.t = "dict" /\ "fields" \in DOMAIN result.d /\ falsy(result.d.fields)
  THEN [shown |-> <<Shown(idx, "info", PyNone)>>, continue |-> TRUE, raised |-> ""]
  ELSE CASE in_error(result) = "TypeError" ->
              [shown |-> <<>>, continue |-> FALSE, raised |-> "TypeError"]
         [] in_error(result) = "False" ->
              [shown |-> <<>>, continue |-> FALSE, raised |-> ""]
         [] in_error(result) = "True" /\ result.t # "dict" ->
              [shown |-> <<>>, continue |-> FALSE, raised |-> "TypeError"]
         [] in_error(result) = "True" /\ result.t = "dict" /\ result.d.error.t # "str" ->
              [shown |-> <<>>, continue |-> FALSE, raised |-> "AttributeError"]
         [] OTHER ->
              IF is_quota_error(result.d.error.s)
              THEN [shown |-> <<Shown(idx, "overloaded", PyNone)>>, continue |-> TRUE, raised |-> ""]
              ELSE [shown |-> <<>>, continue |-> FALSE, raised |-> ""]

\* The display after the spinner: st.error for a result with an error, the
\* JSON output otherwise.
display(idx, result) ==
  CASE in_error(result) = "TypeError" ->
         [shown |-> <<>>, raised |-> "TypeError"]
    [] in_error(result) = "True" /\ result.t # "dict" ->
         [shown |-> <<>>, raised |-> "TypeError"]
    [] in_error(result) = "True" /\ result.t = "dict" ->
         [shown |-> <<Shown(idx, "error", result.d.error)>>, raised |-> ""]
    [] OTHER ->
         [shown |-> <<Shown(idx, "json", result)>>, raised |-> ""]

\* One iteration of the loop over transcripts, from the extractor's return
\* on: the preview (shown before the call), the tests of the AI branch and
\* the display.  made is what run_extractor returned.
process_result(choice, idx, tx, made) ==
  LET res == made[Len(made)].result
      preview == <<Shown(idx, "preview", PyStr(tx))>>
      early == IF choice = AIExtractor
               THEN ai_checks(idx, res)
               ELSE [shown |-> <<>>, continue |-> FALSE, raised |-> ""]
      late == display(idx, res)
      logged == [k \in 1..Len(made) |-> [idx |-> idx, call |-> made[k]]]
  IN  IF early.continue \/ early.raised # ""
      THEN [calls |-> logged, result |-> res, shown |-> preview \o early.shown, raised |-> early.raised]
      ELSE [calls |-> logged, result |-> res, shown |-> preview \o late.shown, raised |-> late.raised]

\* One iteration of the loop over transcripts.
process_transcript(choice, idx, tx, outcome) ==
  process_result(choice, idx, tx, run_extractor(choice, tx, outcome))

\* ------------------------------------------------------------------ inputs

\* The most rows of an uploaded CSV.
MaxRows == 2

\* The most fragments of a transcript given to extract_fields_dummy alone.
MaxFragments == 2

TooShort == <<"H","e","l","l","o"," ","w","o","r","l","d">>

ShortWithKeyword == <<" "," ","M","y"," ","S","S","N"," ","i","s"," ","9","0","5","-","9","5","-","2","2","0","9"," ">>

NoKeyword == <<"W","e"," ","t","a","l","k","e","d"," ","a","b","o","u","t"," ","t","h","e"," ","w","e","a","t","h","e","r"," ","a","l","l"," ","d","a","y"," ","l","o","n","g",".">>

Application == <<"B","o","r","r","o","w","e","r",":"," ","A","l","i","c","e"," ","J","o","h","n","s","o","n","\n","I"," ","n","e","e","d"," ","a"," ","l","o","a","n"," ","f","o","r"," ","$","4","1","5",",","0","0","0">>

\* The texts pasted into the text area.
SampleTexts == {<<>>, <<" "," ","\n">>, TooShort, ShortWithKeyword, NoKeyword, Application}

\* mock_transcripts.json
examples == [greeting |-> TooShort, application |-> Application]

\* The cells of the column "transcript" of an uploaded CSV.
Cells == {NaN, Cell(TooShort), Cell(Application)}

RowLists == UNION {[1..n -> Cells] : n \in 0..MaxRows}

UploadedFiles == {UnreadableFile, CsvFile(FALSE, <<>>)} \cup {CsvFile(TRUE, rows) : rows \in RowLists}

\* str(e) of the exceptions the OpenAI client raises.
ErrorMessages ==
  { <<"E","r","r","o","r"," ","c","o","d","e",":"," ","4","2","9"," ","-"," ","t","o","o"," ","m","a","n","y"," ","r","e","q","u","e","s","t","s">>,
    <<"Y","o","u"," ","e","x","c","e","e","d","e","d"," ","y","o","u","r"," ","c","u","r","r","e","n","t"," ","q","u","o","t","a">>,
    <<"R","a","t","e"," ","l","i","m","i","t"," ","r","e","a","c","h","e","d"," ","f","o","r"," ","g","p","t","-","4","o","-","m","i","n","i">>,
    <<"C","o","n","n","e","c","t","i","o","n"," ","e","r","r","o","r",".">> }

\* The JSON documents the model may reply with.
JsonValues ==
  { PyDict([fields |-> PyList(<<Field("Borrower Name", <<"A","l","i","c","e"," ","J","o","h","n","s","o","n">>, 90)>>)]),
    PyDict([fields |-> PyList(<<>>)]),
    PyDict([fields |-> PyList(<<>>), error |-> PyStr(<<"c","o","u","l","d"," ","n","o","t"," ","r","e","a","d"," ","t","h","e"," ","t","r","a","n","s","c","r","i","p","t">>)]),
    PyDict([error |-> PyInt(429)]),
    PyDict([data |-> PyList(<<>>)]),
    PyList(<<PyStr(<<"e","r","r","o","r">>)>>),
    PyInt(5) }

\* What one call of the external service may do.
ServiceOutcomes ==
  {Raises(m) : m \in ErrorMessages}
    \cup {Replies(ContentNone), Replies(ContentGarbage)}
    \cup {Replies(ContentJson(v)) : v \in JsonValues}

\* No call of the service is made.
NoOutcome == Replies(ContentNone)

\* The pieces the transcripts given to extract_fields_dummy are made of.
Fragments ==
  { <<"B","o","r","r","o","w","e","r",":"," ","A","l","i","c","e"," ","J","o","h","n","s","o","n","\n">>,
    <<"m","y"," ","n","a","m","e"," ","i","s"," ","B","o","b"," ","L","e","e","."," ">>,
    <<"I"," ","n","e","e","d"," ","a"," ","l","o","a","n"," ","f","o","r"," ","$","4","1","5",",","0","0","0","."," ">>,
    <<"T","h","e"," ","p","u","r","c","h","a","s","e"," ","p","r","i","c","e"," ","i","s"," ","$","3","2","5",",","0","0","0","."," ">>,
    <<"o","u","t","s","t","a","n","d","i","n","g"," ","b","a","l","a","n","c","e"," ","i","s"," ","a","b","o","u","t"," ","$","9",",","5","0","0","\n">>,
    <<"I"," ","l","i","v","e"," ","i","n"," ","a"," ","h","o","m","e"," ","a","t"," ","1","2"," ","M","a","i","n"," ","S","t","."," ">>,
    <<"i","t","'","s"," ","5"," ","E","l","m"," ","R","d","."," ">>,
    <<"T","h","e"," ","a","d","d","r","e","s","s"," ","i","s"," ","7"," ","O","a","k"," ","A","v","e","."," ">>,
    <<"l","o","c","a","t","e","d"," ","a","t"," ","9"," ","P","i","n","e"," ","C","t","."," ">>,
    <<"3","0","-","y","e","a","r"," ","f","i","x","e","d"," ","r","a","t","e"," ">>,
    <<"r","a","t","e"," ","i","s"," ","3",".","5","%"," ">>,
    <<"M","y"," ","S","S","N"," ","i","s"," ","9","0","5","-","9","5","-","2","2","0","9"," ","a","n","d"," ","m","y"," ","D","O","B"," ","i","s"," ","8","/","2","5","/","1","9","6","7","."," ">>,
    <<"D","O","B"," ","i","s"," ","8","/","2","5","/","1","9","6","7"," ">>,
    <<"a","n","n","u","a","l"," ","i","n","c","o","m","e"," ","i","s"," ","$","8","5",",","0","0","0"," ">>,
    <<"g","r","o","s","s"," ","m","o","n","t","h","l","y"," ","i","n","c","o","m","e"," ","$","4",",","0","0","0"," ">>,
    <<"l","o","a","n"," ","f","o","r"," ">>,
    <<"$","2","0","0"," ">>,
    <<"\n">>,
    <<"H","e","l","l","o","."," ">> }

Concat(ss) ==
  LET F[k \in 0..Len(ss)] == IF k = 0 THEN <<>> ELSE F[k - 1] \o ss[k]
  IN  F[Len(ss)]

Transcripts == {Concat(ss) : ss \in UNION {[1..n -> Fragments] : n \in 0..MaxFragments}}

\* ------------------------------------------------------------------- state

VARIABLES
  use_ai,            \* the sidebar radio's value
  transcript_input,  \* st.session_state.transcript_input
  uploaded_file,     \* st.file_uploader's value
  transcripts,       \* the list transcripts of the last run of the script
  pc,                \* "idle", or the handler "running", "done" or "crashed"
  idx,               \* the loop's idx: the transcripts begun
  result,            \* the handler's variable result
  shown,             \* what the last run of the script put on the page
  calls,             \* the calls of the extractors the handler made
  raised,            \* the exception that ended the handler, "" for none
  transcript,        \* the argument of a call of extract_fields_dummy alone
  fields,            \* the "fields" list it returned
  returned           \* whether it has returned

vars == <<use_ai, transcript_input, uploaded_file, transcripts, pc, idx, result,
          shown, calls, raised, transcript, fields, returned>>

page == <<use_ai, transcript_input, uploaded_file, transcripts, pc, idx, result,
          shown, calls, raised>>

alone == <<transcript, fields, returned>>

Init ==
  /\ use_ai = ExtractorOptions[1]
  /\ transcript_input = <<>>
  /\ uploaded_file = NoFile
  /\ transcripts = <<>>
  /\ pc = "idle"
  /\ idx = 0
  /\ result = PyNone
  /\ shown = <<>>
  /\ calls = <<>>
  /\ raised = ""
  /\ transcript = <<>>
  /\ fields = <<>>
  /\ returned = FALSE

\* A run of the script without the button: the page is built anew.  The
\* widgets are used between runs of the handler, which runs to its end.
Rerun ==
  /\ transcripts' = collect_transcripts(uploaded_file', transcript_input')
  /\ shown' = collect_shown(uploaded_file')
  /\ pc' = "idle"
  /\ idx' = 0
  /\ result' = PyNone
  /\ calls' = <<>>
  /\ raised' = ""
  /\ UNCHANGED alone

SelectExtractor ==
  /\ pc # "running"
  /\ \E k \in 1..Len(ExtractorOptions) : use_ai' = ExtractorOptions[k]
  /\ UNCHANGED <<transcript_input, uploaded_file>>
  /\ Rerun

\* The text area is there only while no CSV is uploaded.
PasteTranscript ==
  /\ pc # "running"
  /\ uploaded_file = NoFile
  /\ \E text \in SampleTexts : transcript_input' = text
  /\ UNCHANGED <<use_ai, uploaded_file>>
  /\ Rerun

\* "Choose an example", then "Load example".
LoadExample ==
  /\ pc # "running"
  /\ \E choice \in {""} \cup DOMAIN examples :
       transcript_input' = IF choice \in DOMAIN examples THEN examples[choice] ELSE transcript_input
  /\ UNCHANGED <<use_ai, uploaded_file>>
  /\ Rerun

UploadFile ==
  /\ pc # "running"
  /\ \E file \in UploadedFiles \cup {NoFile} : uploaded_file' = file
  /\ UNCHANGED <<use_ai, transcript_input>>
  /\ Rerun

\* The button "Extract Fields": the script runs again and enters the handler.
ExtractFields ==
  /\ pc # "running"
  /\ transcripts' = collect_transcripts(uploaded_file, transcript_input)
  /\ shown' = collect_shown(uploaded_file)
               \o IF transcripts' = <<>> THEN <<Shown(0, "no_transcript", PyNone)>> ELSE <<>>
  /\ pc' = IF transcripts' = <<>> THEN "done" ELSE "running"
  /\ idx' = 0
  /\ result' = PyNone
  /\ calls' = <<>>
  /\ raised' = ""
  /\ UNCHANGED <<use_ai, transcript_input, uploaded_file>>
  /\ UNCHANGED alone

\* One iteration of "for idx, tx in enumerate(transcripts, start=1)".
ProcessTranscript ==
  /\ pc = "running"
  /\ \E outcome \in IF use_ai = AIExtractor THEN ServiceOutcomes ELSE {NoOutcome} :
       \E r \in {process_transcript(use_ai, idx + 1, transcripts[idx + 1], outcome)} :
           /\ idx' = idx + 1
           /\ result' = r.result
           /\ calls' = calls \o r.calls
           /\ shown' = shown \o r.shown
           /\ raised' = r.raised
           /\ pc' = IF r.raised # "" THEN "crashed"
                    ELSE IF idx + 1 = Len(transcripts) THEN "done"
                    ELSE "running"
  /\ UNCHANGED <<use_ai, transcript_input, uploaded_file, transcripts>>
  /\ UNCHANGED alone

Next ==
  \/ SelectExtractor
  \/ PasteTranscript
  \/ LoadExample
  \/ UploadFile
  \/ ExtractFields
  \/ ProcessTranscript

Spec == Init /\ [][Next]_vars

\* extract_fields_dummy alone, on every transcript made of the fragments.
InitDummy ==
  /\ use_ai = ExtractorOptions[1]
  /\ transcript_input = <<>>
  /\ uploaded_file = NoFile
  /\ transcripts = <<>>
  /\ pc = "idle"
  /\ idx = 0
  /\ result = PyNone
  /\ shown = <<>>
  /\ calls = <<>>
  /\ raised = ""
  /\ transcript \in Transcripts
  /\ fields = <<>>
  /\ returned = FALSE

CallDummy ==
  /\ ~returned
  /\ fields' = extract_fields_dummy(transcript)
  /\ returned' = TRUE
  /\ UNCHANGED transcript
  /\ UNCHANGED page

NextDummy == CallDummy

SpecDummy == InitDummy /\ [][NextDummy]_vars

\* ------------------------------------------------------------------ claims

\* The entries of the page that are the outcome of transcript i: all it shows
\* for i but the preview.
OutcomesOf(i) == SelectSeq(shown, LAMBDA e : e.idx = i /\ e.kind # "preview")

FieldsNamed(list, name) == SelectSeq(list, LAMBDA f : f.field_name = name)

\* REQUIRED_FIELDS of the specification
RequiredFields ==
  {"Borrower Name", "Property Address", "Loan Amount", "Loan Term", "Interest Rate",
   "SSN", "Date of Birth", "Income"}

\* C1: every JSON output rendered for the deterministic extractor holds
\* exactly one field for each of the 8 required names, a name whose rule did
\* not match being there with confidence_score 0.0.
C1_RenderedHasEveryRequiredField ==
  \A k \in 1..Len(shown) :
    (shown[k].kind = "json" /\ use_ai = DummyExtractor) =>
      \A name \in RequiredFields :
        /\ Len(FieldsNamed(shown[k].value.d.fields.items, name)) = 1
        /\ FieldsNamed(extract_fields_dummy(transcripts[shown[k].idx]), name) = <<>>
             => FieldsNamed(shown[k].value.d.fields.items, name)[1].confidence_score = 0

\* The transcript validator of the specification: at least 30 characters
\* once trimmed, and one of the keywords in the lower-cased text.
ValidatorAccepts(tx) ==
  /\ Len(strip(tx)) >= 30
  /\ \E kw \in {<<"l","o","a","n">>, <<"b","o","r","r","o","w","e","r">>, <<"s","s","n">>, <<"d","o","b">>, <<"$">>, <<"i","n","c","o","m","e">>} : contains(lower(tx), kw)

\* C2: no extractor is ever invoked on a transcript that is shorter than 30
\* characters once trimmed or that holds none of the keywords.
C2_RejectedNeverExtracted ==
  \A k \in 1..Len(calls) : ValidatorAccepts(calls[k].call.transcript)

HasFieldsList(r) == r.t = "dict" /\ "fields" \in DOMAIN r.d /\ r.d.fields.t = "list"

IsErrorResult(r) == r.t = "dict" /\ "error" \in DOMAIN r.d

\* C3: whatever the external call does, extract_fields_via_openai returns a
\* dict holding a "fields" list or an error result, and nothing of another shape.
C3_OpenAIResultShape ==
  \A k \in 1..Len(calls) :
    calls[k].call.extractor = "extract_fields_via_openai" =>
      HasFieldsList(calls[k].call.result) \/ IsErrorResult(calls[k].call.result)

OutcomeKinds == {"info", "overloaded", "error", "json"}

\* C4: every transcript the loop has processed has exactly one outcome on the
\* page (the notice, the overloaded message, an error message or the JSON
\* output), and a result that carries an error has an error message.
C4_OneOutcomePerTranscript ==
  \A k \in 1..Len(calls) :
    /\ Len(OutcomesOf(calls[k].idx)) = 1
    /\ OutcomesOf(calls[k].idx)[1].kind \in OutcomeKinds
    /\ IsErrorResult(calls[k].call.result)
         => OutcomesOf(calls[k].idx)[1].kind \in {"overloaded", "error"}

\* C5: the transcripts are processed one at a time in the order of the
\* input, each having its outcome on the page before the next is begun, and
\* the handler ends only when every transcript of the batch has been
\* processed: no result of one transcript aborts the batch.
C5_BatchNeverAborted ==
  /\ \A k \in 1..Len(calls) : calls[k].idx = k /\ calls[k].call.transcript = transcripts[k]
  /\ \A i \in 1..(idx - 1) : Len(OutcomesOf(i)) = 1
  /\ pc \in {"done", "crashed"} => idx = Len(transcripts)

\* C6: the Loan Amount is taken from "loan for" where that matches anywhere
\* in the transcript, else from "purchase price is" where that matches, else
\* from "outstanding balance", wherever the phrases stand, with a leading "$";
\* there is no Loan Amount when none of them matches.
C6_LoanAmountPriority ==
  returned =>
    FieldsNamed(fields, "Loan Amount") =
      IF LoanForMatch(transcript).ok
      THEN <<Field("Loan Amount", <<"$">> \o LoanForMatch(transcript).group1, 50)>>
      ELSE IF PurchasePriceMatch(transcript).ok
      THEN <<Field("Loan Amount", <<"$">> \o PurchasePriceMatch(transcript).group1, 50)>>
      ELSE IF OutstandingBalanceMatch(transcript).ok
      THEN <<Field("Loan Amount", <<"$">> \o OutstandingBalanceMatch(transcript).group1, 50)>>
      ELSE <<>>

\* C6: the purchase price stands before the loan in the transcript, and the
\* Loan Amount returned is the loan's.
C6_Witness ==
  /\ returned
  /\ LoanForMatch(transcript).ok
  /\ PurchasePriceMatch(transcript).ok
  /\ PurchasePriceMatch(transcript).start < LoanForMatch(transcript).start
  /\ FieldsNamed(fields, "Loan Amount") = <<Field("Loan Amount", <<"$","4","1","5",",","0","0","0">>, 50)>>

\* C7: the list extract_fields_dummy returns holds no field_name twice.
C7_NoDuplicateFieldName ==
  returned =>
    \A i, j \in 1..Len(fields) : i # j => fields[i].field_name # fields[j].field_name

\* C7: several rules matched on one transcript.
C7_Witness ==
  /\ returned
  /\ Len(fields) >= 3
  /\ FieldsNamed(fields, "Loan Amount") # <<>>

\* A result of the shape {"error": <str>} and nothing else.
IsBareError(r) == r.t = "dict" /\ DOMAIN r.d = {"error"} /\ r.d.error.t = "str"

\* Some part of the message reads quota, 429 or rate limit, in any case.
MentionsLimit(message) ==
  \E word \in {<<"q","u","o","t","a">>, <<"4","2","9">>, <<"r","a","t","e"," ","l","i","m","i","t">>} :
    \E a \in 1..(Len(message) - Len(word) + 1) :
      \A k \in 1..Len(word) : lower_char(message[a + k - 1]) = word[k]

\* C8: for a bare error result of the delegated extractor, a message that
\* mentions quota, 429 or rate limit in any case gets the advice to switch to
\* the Dummy extractor and neither the raw error nor a JSON output; every
\* other message gets the raw error and never the advice.
C8_QuotaAdviceBySubstring ==
  \A k \in 1..Len(calls) :
    (calls[k].call.extractor = "extract_fields_via_openai" /\ IsBareError(calls[k].call.result)) =>
      OutcomesOf(calls[k].idx) =
        IF MentionsLimit(calls[k].call.result.d.error.s)
        THEN <<Shown(calls[k].idx, "overloaded", PyNone)>>
        ELSE <<Shown(calls[k].idx, "error", calls[k].call.result.d.error)>>

\* C8: one batch in which a message in mixed case got the advice and another
\* message got the raw error.
C8_Witness ==
  /\ Len(calls) = 2
  /\ IsBareError(calls[1].call.result)
  /\ calls[1].call.result.d.error.s = <<"R","a","t","e"," ","l","i","m","i","t"," ","r","e","a","c","h","e","d"," ","f","o","r"," ","g","p","t","-","4","o","-","m","i","n","i">>
  /\ OutcomesOf(1) = <<Shown(1, "overloaded", PyNone)>>
  /\ IsBareError(calls[2].call.result)
  /\ OutcomesOf(2) = <<Shown(2, "error", PyStr(<<"C","o","n","n","e","c","t","i","o","n"," ","e","r","r","o","r",".">>))>>

\* The four trigger phrases the specification gives the Property Address rule.
AddressTriggers == {<<"h","o","m","e"," ","a","t">>, <<"i","t","'","s">>, <<"a","d","d","r","e","s","s"," ","i","s">>, <<"l","o","c","a","t","e","d"," ","a","t">>}

\* lit, some text and then a period on the same line.
HasPhraseToPeriod(tx, lit) ==
  \E i \in 1..Len(tx) : \E d \in (i + Len(lit) + 1)..Len(tx) :
    /\ LitAt(tx, i, lit)
    /\ tx[d] = "."
    /\ \A q \in (i + Len(lit))..d : tx[q] # "\n"

\* C9: a transcript that holds any one of the four trigger phrases, followed
\* by text up to a period, gets a Property Address field.
C9_EveryTriggerYieldsAddress ==
  returned =>
    \A lit \in AddressTriggers :
      HasPhraseToPeriod(transcript, lit) => FieldsNamed(fields, "Property Address") # <<>>

\* C10: the handler calls, for each transcript it processes, exactly one
\* extractor exactly once, the one selected in the sidebar: never
\* extract_fields_dummy with "AI extractor" selected, whatever the call
\* returned, and never extract_fields_via_openai with "Dummy extractor".
C10_OnlySelectedExtractorOnce ==
  /\ Len(calls) = idx
  /\ \A k \in 1..Len(calls) :
       /\ calls[k].idx = k
       /\ calls[k].call.extractor =
            IF use_ai = AIExtractor THEN "extract_fields_via_openai" ELSE "extract_fields_dummy"

\* C10: with "AI extractor" selected the delegated call failed, the handler
\* is done, and extract_fields_dummy was not called.
C10_Witness ==
  /\ use_ai = AIExtractor
  /\ pc = "done"
  /\ Len(calls) = 2
  /\ IsBareError(calls[1].call.result)
  /\ \A k \in 1..Len(calls) : calls[k].call.extractor = "extract_fields_via_openai"

====
